---- MODULE Spec2Model ----
(***************************************************************************)
(* Model of src/main.py, the MCP filesystem server: the path sandbox       *)
(* (normalize_path) and the six request handlers that act on the           *)
(* filesystem (read_file, write_file, list_directory, delete_path,         *)
(* create_directory, get_file_info_endpoint).                              *)
(*                                                                         *)
(* The filesystem is a function from absolute paths (sequences of names)   *)
(* to nodes.  A node is a directory (with a permission mode), a regular    *)
(* file (with its bytes) or a symbolic link (with an absolute target).     *)
(* Text is a sequence of character tokens, file data a sequence of bytes.  *)
(***************************************************************************)
EXTENDS Integers, Sequences, FiniteSets, TLC

VARIABLES fs, req, resp, touched, nmut

vars == <<fs, req, resp, touched, nmut>>

(***************************************************************************)
(* Names, spelling, paths                                                  *)
(***************************************************************************)

\* How each path component is spelled, character by character.
Spelling ==
  [ w    |-> <<"w">>,
    we   |-> <<"w", "e">>,
    t    |-> <<"t">>,
    a    |-> <<"a">>,
    b    |-> <<"b">>,
    d    |-> <<"d">>,
    f    |-> <<"f">>,
    n    |-> <<"n">>,
    h    |-> <<".", "h">>,
    l    |-> <<"l">>,
    c    |-> <<"c">>,
    x    |-> <<"x">>,
    k    |-> <<"k">>,
    g    |-> <<"g">>,
    nul  |-> <<"NUL">>,
    dot  |-> <<".">>,
    up   |-> <<".", ".">> ]

Names == DOMAIN Spelling

Min(S) == CHOOSE m \in S : \A o \in S : m <= o

Parent(p) == IF p = <<>> THEN <<>> ELSE SubSeq(p, 1, Len(p) - 1)

RECURSIVE StrOf(_)
\* str(path): the components joined by "/", as a sequence of characters.
StrOf(p) ==
  IF p = <<>> THEN <<>>
  ELSE StrOf(Parent(p)) \o <<"/">> \o Spelling[p[Len(p)]]

IsStrPrefix(s, u) == Len(s) <= Len(u) /\ SubSeq(u, 1, Len(s)) = s

(***************************************************************************)
(* Filesystem nodes and permissions                                        *)
(***************************************************************************)

Dir(m)     == [kind |-> "dir",  mode |-> m,     data |-> <<>>, target |-> <<>>]
File(bs)   == [kind |-> "file", mode |-> "rwx", data |-> bs,   target |-> <<>>]
Link(tgt)  == [kind |-> "link", mode |-> "rwx", data |-> <<>>, target |-> tgt]

CanRead(m)   == m \in {"rwx", "r--"}
CanWrite(m)  == m = "rwx"
CanSearch(m) == m = "rwx"

\* errno of walking into directory p, every component of p being taken
\* literally (no symbolic link is followed).
TraverseErr(F, p) ==
  LET bad == { i \in 0..Len(p) :
                 LET q == SubSeq(p, 1, i) IN
                   \/ q \notin DOMAIN F
                   \/ F[q].kind # "dir"
                   \/ ~CanSearch(F[q].mode) }
  IN IF bad = {} THEN "OK"
     ELSE LET q == SubSeq(p, 1, Min(bad)) IN
            IF q \notin DOMAIN F THEN "ENOENT"
            ELSE IF F[q].kind # "dir" THEN "ENOTDIR"
            ELSE "EACCES"

\* os.lstat(p): the object named p itself, its last component not followed.
LstatErr(F, p) ==
  IF p = <<>> THEN "OK"
  ELSE LET e == TraverseErr(F, Parent(p)) IN
         IF e # "OK" THEN e
         ELSE IF p \notin DOMAIN F THEN "ENOENT" ELSE "OK"

MaxSymlinkHops == 40

\* The number of leading components of rest that name, one below the other
\* from cur on, existing objects that are reachable and are not symbolic
\* links: path resolution steps through them without further ado.
PlainSteps(F, cur, rest) ==
  Cardinality({ k \in 1..Len(rest) :
                  \A j \in 1..k :
                    /\ rest[j] \notin {"dot", "up"}
                    /\ LstatErr(F, cur \o SubSeq(rest, 1, j)) = "OK"
                    /\ F[cur \o SubSeq(rest, 1, j)].kind # "link" })

RECURSIVE Walk(_, _, _, _, _)
\* Path resolution from the canonical directory cur along the components
\* rest.  strict = TRUE is the kernel's resolution (stat, open, listdir):
\* every component must exist.  strict = FALSE is os.path.realpath as used
\* by Path.resolve(): what cannot be looked up is appended lexically.
Walk(F, cur, rest, fuel, strict) ==
  CASE rest = <<>> -> [err |-> "OK", path |-> cur]
    [] rest # <<>> /\ PlainSteps(F, cur, rest) > 0 ->
         Walk(F, cur \o SubSeq(rest, 1, PlainSteps(F, cur, rest)),
              SubSeq(rest, PlainSteps(F, cur, rest) + 1, Len(rest)),
              fuel, strict)
    [] rest # <<>> /\ Head(rest) \in {"dot", "up"}
         /\ strict /\ TraverseErr(F, cur) # "OK" ->
         [err |-> TraverseErr(F, cur), path |-> cur]
    [] rest # <<>> /\ Head(rest) = "dot"
         /\ ~(strict /\ TraverseErr(F, cur) # "OK") ->
         Walk(F, cur, Tail(rest), fuel, strict)
    [] rest # <<>> /\ Head(rest) = "up"
         /\ ~(strict /\ TraverseErr(F, cur) # "OK") ->
         Walk(F, Parent(cur), Tail(rest), fuel, strict)
    [] rest # <<>> /\ Head(rest) \notin {"dot", "up"}
         /\ LstatErr(F, Append(cur, Head(rest))) # "OK" /\ strict ->
         [err |-> LstatErr(F, Append(cur, Head(rest))),
          path |-> Append(cur, Head(rest))]
    [] rest # <<>> /\ Head(rest) \notin {"dot", "up"}
         /\ LstatErr(F, Append(cur, Head(rest))) # "OK" /\ ~strict ->
         Walk(F, Append(cur, Head(rest)), Tail(rest), fuel, strict)
    [] rest # <<>> /\ Head(rest) \notin {"dot", "up"}
         /\ LstatErr(F, Append(cur, Head(rest))) = "OK"
         /\ F[Append(cur, Head(rest))].kind = "link" /\ fuel = 0 ->
         [err |-> "ELOOP", path |-> Append(cur, Head(rest))]
    [] rest # <<>> /\ Head(rest) \notin {"dot", "up"}
         /\ LstatErr(F, Append(cur, Head(rest))) = "OK"
         /\ F[Append(cur, Head(rest))].kind = "link" /\ fuel # 0 ->
         Walk(F, <<>>, F[Append(cur, Head(rest))].target \o Tail(rest),
              fuel - 1, strict)
    [] rest # <<>> /\ Head(rest) \notin {"dot", "up"}
         /\ LstatErr(F, Append(cur, Head(rest))) = "OK"
         /\ F[Append(cur, Head(rest))].kind # "link" ->
         Walk(F, Append(cur, Head(rest)), Tail(rest), fuel, strict)

\* os.stat(p): follows symbolic links.
Stat(F, p) == Walk(F, <<>>, p, MaxSymlinkHops, TRUE)

\* The object a system call on p acts on, for the record of touched objects.
Target(F, p) == Walk(F, <<>>, p, MaxSymlinkHops, FALSE).path

(***************************************************************************)
(* Text encodings (Path.write_text / Path.read_text)                       *)
(***************************************************************************)

Chars == {"a", "eacute", "CR", "LF"}

Encodings == {"utf-8", "ascii"}

\* Text-mode output, newline=None: "\n" becomes os.linesep, which is "\n"
\* on POSIX; "\r" is written as it is.
RECURSIVE WriteNewlines(_)
WriteNewlines(text) ==
  IF text = <<>> THEN <<>>
  ELSE (IF Head(text) = "LF" THEN <<"LF">> ELSE <<Head(text)>>)
         \o WriteNewlines(Tail(text))

\* Text-mode input, newline=None (universal newlines): "\r\n" and a lone
\* "\r" are both turned into "\n".
RECURSIVE ReadNewlines(_)
ReadNewlines(text) ==
  IF text = <<>> THEN <<>>
  ELSE IF Head(text) = "CR" THEN
    IF Len(text) >= 2 /\ text[2] = "LF"
    THEN <<"LF">> \o ReadNewlines(Tail(Tail(text)))
    ELSE <<"LF">> \o ReadNewlines(Tail(text))
  ELSE <<Head(text)>> \o ReadNewlines(Tail(text))

RECURSIVE EncodeChars(_, _)
\* str.encode: the bytes of the text, or a UnicodeEncodeError.
EncodeChars(text, encoding) ==
  IF text = <<>> THEN [ok |-> TRUE, bytes |-> <<>>]
  ELSE
    LET ch   == Head(text)
        rest == EncodeChars(Tail(text), encoding)
        bs   == IF ch = "a" THEN <<97>>
                ELSE IF ch = "CR" THEN <<13>>
                ELSE IF ch = "LF" THEN <<10>>
                ELSE <<195, 169>>
    IN IF ch = "eacute" /\ encoding = "ascii"
       THEN [ok |-> FALSE, bytes |-> <<>>]
       ELSE [ok |-> rest.ok, bytes |-> IF rest.ok THEN bs \o rest.bytes ELSE <<>>]

RECURSIVE DecodeBytes(_, _)
\* bytes.decode: the text of the bytes, or a UnicodeDecodeError.
DecodeBytes(bs, encoding) ==
  IF bs = <<>> THEN [ok |-> TRUE, text |-> <<>>]
  ELSE
    LET b0 == Head(bs) IN
      IF b0 \in {97, 13, 10} THEN
        LET rest == DecodeBytes(Tail(bs), encoding)
            ch   == IF b0 = 97 THEN "a" ELSE IF b0 = 13 THEN "CR" ELSE "LF"
        IN [ok |-> rest.ok, text |-> IF rest.ok THEN <<ch>> \o rest.text ELSE <<>>]
      ELSE IF encoding = "utf-8" /\ b0 = 195 /\ Len(bs) >= 2 /\ bs[2] = 169 THEN
        LET rest == DecodeBytes(Tail(Tail(bs)), encoding)
        IN [ok |-> rest.ok, text |-> IF rest.ok THEN <<"eacute">> \o rest.text ELSE <<>>]
      ELSE [ok |-> FALSE, text |-> <<>>]

(***************************************************************************)
(* Responses                                                               *)
(***************************************************************************)

None == <<"None">>

NoInfo == [name |-> "", path |-> None, type |-> "none", size |-> -1]

Response(status, detail, path, info, content, items) ==
  [status |-> status, detail |-> detail, path |-> path, info |-> info,
   content |-> content, items |-> items]

\* raise HTTPException(status_code=..., detail=...)
HTTPException(status, detail) ==
  Response(status, detail, None, NoInfo, None, <<>>)

\* An exception no handler catches: the framework answers 500.
Unhandled(exc) == HTTPException(500, "Internal Server Error")

Outcome(F, r, t) == [fs |-> F, resp |-> r, touched |-> t]

(***************************************************************************)
(* Path sandbox                                                            *)
(***************************************************************************)

ALLOWED_PATHS == << <<"w">>, <<"t">> >>

\* The working directory of the server process.
Cwd == <<"w">>

\* A containment test on the raw strings instead of the components.
relative_to_str(p, allowed) == IsStrPrefix(StrOf(allowed), StrOf(p))

\* PurePath.relative_to(allowed): TRUE when no ValueError is raised, that
\* is when allowed is a component-wise prefix of p.
relative_to(p, allowed) ==
  /\ Len(allowed) <= Len(p)
  /\ \A i \in 1..Len(allowed) : p[i] = allowed[i]

\* What Path.resolve() makes of the walk r: a symbolic link loop is a
\* RuntimeError.
resolved(r) ==
  IF r.err = "ELOOP" THEN [err |-> "RuntimeError", path |-> None]
  ELSE [err |-> "OK", path |-> r.path]

\* Path(path).resolve(): an embedded null byte is a ValueError, a relative
\* path starts at the working directory.
resolve(F, raw) ==
  IF \E i \in 1..Len(raw.parts) : raw.parts[i] = "nul"
  THEN [err |-> "ValueError", path |-> None]
  ELSE resolved(Walk(F, IF raw.abs THEN <<>> ELSE Cwd, raw.parts,
                     MaxSymlinkHops, FALSE))

\* The handler of "except Exception as e" in normalize_path: whatever was
\* raised inside the try block, the HTTPException(403) included, leaves as
\* HTTPException(400, "Invalid path: ...").
ExceptException(exc) == [status |-> 400, detail |-> "Invalid path", path |-> None]

\* The body of the try block of normalize_path once resolve() has run.
check_allowed(r) ==
  IF r.err # "OK" THEN ExceptException(r.err)
  ELSE IF \E i \in 1..Len(ALLOWED_PATHS) : relative_to(r.path, ALLOWED_PATHS[i])
  THEN [status |-> 200, detail |-> "OK", path |-> r.path]
  ELSE ExceptException([status |-> 403, detail |-> "Access denied", path |-> None])

normalize_path(F, raw) == check_allowed(resolve(F, raw))

\* A handler that got no path from normalize_path fails with its exception.
Refused(F, np) == Outcome(F, HTTPException(np.status, np.detail), {})

(***************************************************************************)
(* get_file_info and the existence tests of pathlib                        *)
(***************************************************************************)

\* Path.exists() / is_file() / is_dir(): a stat whose ENOENT, ENOTDIR and
\* ELOOP mean "no" and whose other errors are raised.
Ignored == {"ENOENT", "ENOTDIR", "ELOOP"}

\* The FileInfo built from the result st of path.stat().
file_info(F, p, st) ==
  IF st.err # "OK" THEN [err |-> st.err, info |-> NoInfo]
  ELSE [err  |-> "OK",
        info |-> [name |-> IF p = <<>> THEN "" ELSE p[Len(p)],
                  path |-> p,
                  type |-> IF F[st.path].kind = "dir" THEN "directory" ELSE "file",
                  size |-> IF F[st.path].kind = "file"
                           THEN Len(F[st.path].data) ELSE -1]]

get_file_info(F, p) == file_info(F, p, Stat(F, p))

(***************************************************************************)
(* read_file                                                               *)
(***************************************************************************)

\* A size limit that also refuses a file of exactly max_size bytes.
too_large_inclusive(st_size, max_size) == st_size >= max_size

\* "if file_path.stat().st_size > request.max_size"
too_large(st_size, max_size) == st_size > max_size

\* read_file from file_path.read_text on: dec is the decoded file.
read_decoded(F, file_path, dec, t) ==
  IF ~dec.ok THEN Outcome(F, HTTPException(400, "Cannot decode file"), t)
  ELSE Outcome(F, Response(200, "OK", file_path,
                           get_file_info(F, file_path).info,
                           ReadNewlines(dec.text), <<>>), t)

\* read_file after normalize_path: st is the stat behind exists(),
\* is_file() and stat().st_size.
read_checked(F, file_path, st, t, encoding, max_size) ==
  IF st.err \notin Ignored \cup {"OK"} THEN Outcome(F, Unhandled(st.err), t)
  ELSE IF st.err # "OK" THEN
    Outcome(F, HTTPException(404, "File not found"), t)
  ELSE IF F[st.path].kind # "file" THEN
    Outcome(F, HTTPException(400, "Path is not a file"), t)
  ELSE IF too_large(Len(F[st.path].data), max_size) THEN
    Outcome(F, HTTPException(413, "File too large"), t)
  ELSE read_decoded(F, file_path, DecodeBytes(F[st.path].data, encoding), t)

read_normalized(F, np, encoding, max_size) ==
  IF np.status # 200 THEN Refused(F, np)
  ELSE read_checked(F, np.path, Stat(F, np.path), {Target(F, np.path)},
                    encoding, max_size)

read_file(F, raw, encoding, max_size) ==
  read_normalized(F, normalize_path(F, raw), encoding, max_size)

(***************************************************************************)
(* Directory contents and updates of the filesystem                        *)
(***************************************************************************)

\* The entries of directory q in the order ord, a permutation of the names.
Children(F, q, ord) == SelectSeq(ord, LAMBDA nm : Append(q, nm) \in DOMAIN F)

HasChildren(F, q) == \E nm \in Names : Append(q, nm) \in DOMAIN F

Subtree(F, p) == { q \in DOMAIN F : relative_to(q, p) }

Put(F, p, node) == [q \in DOMAIN F \cup {p} |-> IF q = p THEN node ELSE F[q]]

Remove(F, S) == [q \in DOMAIN F \ S |-> F[q]]

(***************************************************************************)
(* Path.mkdir(parents=True, exist_ok=True)                                 *)
(***************************************************************************)

\* errno of os.mkdir(p)
os_mkdir(F, p) ==
  IF p = <<>> THEN "EEXIST"
  ELSE IF TraverseErr(F, Parent(p)) # "OK" THEN TraverseErr(F, Parent(p))
  ELSE IF p \in DOMAIN F THEN "EEXIST"
  ELSE IF ~CanWrite(F[Parent(p)].mode) THEN "EACCES"
  ELSE "OK"

\* Path.is_dir() used by the exist_ok branch; an error it would raise is an
\* error of mkdir all the same.
is_dir_stat(F, st) == st.err = "OK" /\ F[st.path].kind = "dir"

is_dir(F, p) == is_dir_stat(F, Stat(F, p))

RECURSIVE mkdir(_, _)

\* self.mkdir(mode, parents=False, exist_ok=True) once the parent has been
\* made, up being the result of making it.
mkdir_again(p, up, t) ==
  IF up.err # "OK"
  THEN [fs |-> up.fs, err |-> up.err, touched |-> t \cup up.touched]
  ELSE IF os_mkdir(up.fs, p) = "OK"
  THEN [fs |-> Put(up.fs, p, Dir("rwx")), err |-> "OK",
        touched |-> t \cup up.touched]
  ELSE IF os_mkdir(up.fs, p) # "ENOENT" /\ is_dir(up.fs, p)
  THEN [fs |-> up.fs, err |-> "OK", touched |-> t \cup up.touched]
  ELSE [fs |-> up.fs, err |-> os_mkdir(up.fs, p), touched |-> t \cup up.touched]

\* Path.mkdir after its first os.mkdir(p), whose errno is e.
mkdir_tried(F, p, e, t) ==
  IF e = "OK" THEN [fs |-> Put(F, p, Dir("rwx")), err |-> "OK", touched |-> t]
  ELSE IF e = "ENOENT" THEN
    IF p = <<>> THEN [fs |-> F, err |-> e, touched |-> t]
    ELSE mkdir_again(p, mkdir(F, Parent(p)), t)
  ELSE IF is_dir(F, p) THEN [fs |-> F, err |-> "OK", touched |-> t]
  ELSE [fs |-> F, err |-> e, touched |-> t]

mkdir(F, p) == mkdir_tried(F, p, os_mkdir(F, p), {Target(F, p)})

(***************************************************************************)
(* write_file                                                              *)
(***************************************************************************)

\* errno of open(p, "w")
open_w(F, p) ==
  IF p = <<>> THEN "EISDIR"
  ELSE IF TraverseErr(F, Parent(p)) # "OK" THEN TraverseErr(F, Parent(p))
  ELSE IF p \in DOMAIN F THEN
    IF F[p].kind = "dir" THEN "EISDIR" ELSE "OK"
  ELSE IF ~CanWrite(F[Parent(p)].mode) THEN "EACCES"
  ELSE "OK"

\* Path.write_text once the file is open and enc is the encoded text: the
\* open has created or truncated the file before the text is encoded.
write_encoded(F, p, e, enc) ==
  IF e # "OK" THEN [fs |-> F, err |-> e]
  ELSE IF ~enc.ok THEN [fs |-> Put(F, p, File(<<>>)), err |-> "UnicodeEncodeError"]
  ELSE [fs |-> Put(F, p, File(enc.bytes)), err |-> "OK"]

\* Path.write_text(content, encoding)
write_text(F, p, content, encoding) ==
  write_encoded(F, p, open_w(F, p), EncodeChars(WriteNewlines(content), encoding))

\* write_file from the try block on, wr being the result of write_text.
write_written(file_path, wr, t) ==
  IF wr.err # "OK"
  THEN Outcome(wr.fs, HTTPException(500, "Error writing file"), t)
  ELSE Outcome(wr.fs,
               Response(200, "File written successfully", file_path,
                        get_file_info(wr.fs, file_path).info, None, <<>>),
               t)

\* write_file after "if request.create_dirs: ...mkdir(...)", md being the
\* result of the mkdir; its error is outside the try block.
write_made(file_path, md, content, encoding) ==
  IF md.err # "OK" THEN Outcome(md.fs, Unhandled(md.err), md.touched)
  ELSE write_written(file_path,
                     write_text(md.fs, file_path, content, encoding),
                     md.touched \cup {Target(md.fs, file_path)})

write_normalized(F, np, content, encoding, create_dirs) ==
  IF np.status # 200 THEN Refused(F, np)
  ELSE write_made(np.path,
                  IF create_dirs THEN mkdir(F, Parent(np.path))
                  ELSE [fs |-> F, err |-> "OK", touched |-> {}],
                  content, encoding)

write_file(F, raw, content, encoding, create_dirs) ==
  write_normalized(F, normalize_path(F, raw), content, encoding, create_dirs)

(***************************************************************************)
(* list_directory                                                          *)
(***************************************************************************)

MaxRecursionLevel == 10

\* What os.listdir gives for the directory whose stat is st.
listdir(F, st, ord) ==
  IF st.err # "OK" THEN [err |-> st.err, names |-> <<>>]
  ELSE IF F[st.path].kind # "dir" THEN [err |-> "ENOTDIR", names |-> <<>>]
  ELSE IF ~CanRead(F[st.path].mode) THEN [err |-> "EACCES", names |-> <<>>]
  ELSE [err |-> "OK", names |-> Children(F, st.path, ord)]

\* Path.iterdir()
iterdir(F, p, ord) == listdir(F, Stat(F, p), ord)

startswith_dot(nm) == Spelling[nm][1] = "."

\* A hidden-file test that looks at the end of the name.
skip_hidden_endswith(rq, nm) ==
  ~rq.show_hidden /\ Spelling[nm][Len(Spelling[nm])] = "."

\* "if not request.show_hidden and item.name.startswith('.')": continue
skip_hidden(rq, nm) == ~rq.show_hidden /\ startswith_dot(nm)

\* A depth test that lets one more level through.
descend_inclusive(rq, info, level) ==
  rq.recursive /\ info.type = "directory" /\ level <= MaxRecursionLevel

\* "if request.recursive and item.is_dir() and level < 10"
descend(rq, info, level) ==
  rq.recursive /\ info.type = "directory" /\ level < MaxRecursionLevel

RECURSIVE Flatten(_, _)
\* The concatenation of the items of the turns 1..n.
Flatten(turns, n) ==
  IF n = 0 THEN <<>>
  ELSE Flatten(turns, n - 1) \o (CHOOSE tr \in turns : tr[1] = n)[2].items

\* The entries the for loop of add_items has a turn for: those of
\* path.iterdir(), none if it raises, that are not skipped.
loop_entries(F, rq, path) ==
  SelectSeq(iterdir(F, path, rq.order).names, LAMBDA nm : ~skip_hidden(rq, nm))

\* The index of the first turn that ends with an exception, the last turn
\* if none does.
first_stop(turns) ==
  IF \A tr \in turns : tr[2].exc = "none" THEN Cardinality(turns)
  ELSE Min({ tr[1] : tr \in { u \in turns : u[2].exc # "none" } })

\* The try block of add_items given the error lserr of path.iterdir() and
\* the turns of the for loop: the loop runs them in enumeration order up to
\* and including the first one that ends with an exception.  "except
\* PermissionError: pass" swallows an EACCES, any other error propagates.
\* first holds what was appended for the directory itself.
loop_until(first, lserr, turns, t0) ==
  IF turns = {}
  THEN [items |-> first,
        exc |-> IF lserr \in {"OK", "EACCES"} THEN "none" ELSE lserr,
        touched |-> t0]
  ELSE [items   |-> first \o Flatten(turns, first_stop(turns)),
        exc     |-> IF \A tr \in turns :
                         tr[1] <= first_stop(turns) =>
                           tr[2].exc \in {"none", "EACCES"}
                    THEN "none"
                    ELSE (CHOOSE tr \in turns : tr[1] = first_stop(turns))[2].exc,
        touched |-> t0 \cup UNION { tr[2].touched :
                                      tr \in { u \in turns :
                                                 u[1] <= first_stop(turns) } }]

RECURSIVE add_items(_, _, _, _, _)

\* One turn of the for loop of add_items for the entry item, gi being the
\* result of get_file_info(item): the entries the turn appends to items and
\* the exception it ends with.  An error of get_file_info ends the turn
\* before anything is appended; a directory to descend into is appended
\* and followed by what the nested add_items appends.
item_turn(F, rq, item, level, gi) ==
  CASE gi.err # "OK" ->
         [items |-> <<>>, exc |-> gi.err, touched |-> {Target(F, item)}]
    [] gi.err = "OK" /\ descend(rq, gi.info, level) ->
         add_items(F, rq, item, level + 1, <<gi.info>>)
    [] gi.err = "OK" /\ ~descend(rq, gi.info, level) ->
         [items |-> <<gi.info>>, exc |-> "none", touched |-> {Target(F, item)}]

\* add_items(path, level): first is what the caller has just appended to
\* items, the result holds it followed by what this call appends.
add_items(F, rq, path, level, first) ==
  loop_until(first, iterdir(F, path, rq.order).err,
             { <<i, item_turn(F, rq, Append(path, loop_entries(F, rq, path)[i]),
                              level,
                              get_file_info(F, Append(path,
                                                      loop_entries(F, rq, path)[i])))>> :
                 i \in 1..Len(loop_entries(F, rq, path)) },
             {Target(F, path)})

\* list_directory after add_items(dir_path), whose result is res.
list_added(F, dir_path, res, t) ==
  IF res.exc # "none" THEN Outcome(F, Unhandled(res.exc), t \cup res.touched)
  ELSE Outcome(F, Response(200, "OK", dir_path, NoInfo, None, res.items),
               t \cup res.touched)

\* list_directory after normalize_path: st is the stat behind exists() and
\* is_dir().
list_checked(F, rq, dir_path, st, t) ==
  IF st.err \notin Ignored \cup {"OK"} THEN Outcome(F, Unhandled(st.err), t)
  ELSE IF st.err # "OK" THEN
    Outcome(F, HTTPException(404, "Directory not found"), t)
  ELSE IF F[st.path].kind # "dir" THEN
    Outcome(F, HTTPException(400, "Path is not a directory"), t)
  ELSE list_added(F, dir_path, add_items(F, rq, dir_path, 0, <<>>), t)

list_normalized(F, rq, np) ==
  IF np.status # 200 THEN Refused(F, np)
  ELSE list_checked(F, rq, np.path, Stat(F, np.path), {Target(F, np.path)})

list_directory(F, rq) == list_normalized(F, rq, normalize_path(F, rq.path))

(***************************************************************************)
(* delete_path                                                             *)
(***************************************************************************)

\* errno of os.unlink(p) / os.rmdir(p) as far as the parent directory goes
remove_entry(F, p) ==
  IF p = <<>> THEN "EBUSY"
  ELSE IF ~(CanWrite(F[Parent(p)].mode) /\ CanSearch(F[Parent(p)].mode))
  THEN "EACCES"
  ELSE "OK"

\* errno of Path.rmdir()
rmdir(F, p) ==
  IF HasChildren(F, p) THEN "ENOTEMPTY" ELSE remove_entry(F, p)

\* Removing the entry once what is below it is gone (rm is the result so
\* far): the first error is raised and leaves what was removed so far
\* removed.
remove_after(rm, entry) ==
  IF rm.err # "OK" THEN rm
  ELSE IF remove_entry(rm.fs, entry) # "OK"
  THEN [fs |-> rm.fs, err |-> remove_entry(rm.fs, entry)]
  ELSE [fs |-> Remove(rm.fs, {entry}), err |-> "OK"]

RECURSIVE rmtree_contents(_, _, _)
RECURSIVE rmtree_loop(_, _, _, _)

\* shutil.rmtree below p, continued after the entry Head(names) has been
\* dealt with.
rmtree_next(rm, p, names, ord) ==
  IF rm.err # "OK" THEN rm ELSE rmtree_loop(rm.fs, p, Tail(names), ord)

\* shutil.rmtree below p: the entries are removed one after the other; a
\* directory is emptied first, a symbolic link is unlinked and not followed.
rmtree_loop(F, p, names, ord) ==
  IF names = <<>> THEN [fs |-> F, err |-> "OK"]
  ELSE IF F[Append(p, Head(names))].kind = "dir"
  THEN rmtree_next(remove_after(rmtree_contents(F, Append(p, Head(names)), ord),
                                Append(p, Head(names))),
                   p, names, ord)
  ELSE rmtree_next(remove_after([fs |-> F, err |-> "OK"], Append(p, Head(names))),
                   p, names, ord)

rmtree_contents(F, p, ord) ==
  IF ~CanRead(F[p].mode) THEN [fs |-> F, err |-> "EACCES"]
  ELSE rmtree_loop(F, p, Children(F, p, ord), ord)

rmtree(F, p, ord) == remove_after(rmtree_contents(F, p, ord), p)

\* delete_path after shutil.rmtree(path), whose result is rm.
delete_tree(path, rm, t) ==
  IF rm.err # "OK"
  THEN Outcome(rm.fs, HTTPException(500, "Error deleting path"), t)
  ELSE Outcome(rm.fs, Response(200, "Directory deleted recursively", path,
                               NoInfo, None, <<>>), t)

\* delete_path after normalize_path: st is the stat behind exists(),
\* is_file() and is_dir().
delete_checked(F, rq, path, st, t) ==
  IF st.err \notin Ignored \cup {"OK"} THEN Outcome(F, Unhandled(st.err), t)
  ELSE IF st.err # "OK" THEN
    Outcome(F, HTTPException(404, "Path not found"), t)
  ELSE IF F[st.path].kind = "file" THEN
    IF remove_entry(F, path) # "OK"
    THEN Outcome(F, HTTPException(500, "Error deleting path"), t)
    ELSE Outcome(Remove(F, {path}),
                 Response(200, "File deleted", path, NoInfo, None, <<>>), t)
  ELSE IF rq.recursive THEN
    delete_tree(path, rmtree(F, path, rq.order), Subtree(F, path))
  ELSE
    IF rmdir(F, path) # "OK"
    THEN Outcome(F, HTTPException(500, "Error deleting path"), t)
    ELSE Outcome(Remove(F, {path}),
                 Response(200, "Directory deleted", path, NoInfo, None, <<>>), t)

delete_normalized(F, rq, np) ==
  IF np.status # 200 THEN Refused(F, np)
  ELSE delete_checked(F, rq, np.path, Stat(F, np.path), {Target(F, np.path)})

delete_path(F, rq) == delete_normalized(F, rq, normalize_path(F, rq.path))

(***************************************************************************)
(* create_directory and get_file_info_endpoint                             *)
(***************************************************************************)

\* create_directory after dir_path.mkdir(...), whose result is md, and
\* get_file_info(dir_path), whose result is gi, both inside the try block.
create_made(dir_path, md, gi) ==
  IF md.err # "OK" \/ gi.err # "OK"
  THEN Outcome(md.fs, HTTPException(500, "Error creating directory"), md.touched)
  ELSE Outcome(md.fs, Response(200, "Directory created", dir_path, gi.info,
                               None, <<>>), md.touched)

create_mkdir(dir_path, md) ==
  create_made(dir_path, md, get_file_info(md.fs, dir_path))

create_normalized(F, np) ==
  IF np.status # 200 THEN Refused(F, np)
  ELSE create_mkdir(np.path, mkdir(F, np.path))

create_directory(F, raw) == create_normalized(F, normalize_path(F, raw))

\* get_file_info_endpoint after normalize_path: st is the stat behind
\* exists().
info_checked(F, file_path, st, t) ==
  IF st.err \notin Ignored \cup {"OK"} THEN Outcome(F, Unhandled(st.err), t)
  ELSE IF st.err # "OK" THEN
    Outcome(F, HTTPException(404, "Path not found"), t)
  ELSE Outcome(F, Response(200, "OK", file_path,
                           get_file_info(F, file_path).info, None, <<>>), t)

info_normalized(F, np) ==
  IF np.status # 200 THEN Refused(F, np)
  ELSE info_checked(F, np.path, Stat(F, np.path), {Target(F, np.path)})

get_file_info_endpoint(F, raw) == info_normalized(F, normalize_path(F, raw))

(***************************************************************************)
(* Filesystems, requests and inputs                                        *)
(***************************************************************************)

\* Directory enumeration order is unspecified: two representative orders.
NameOrder ==
  <<"a", "b", "c", "d", "f", "g", "h", "k", "l", "n", "t", "w", "we", "x">>

Reverse(s) == [i \in 1..Len(s) |-> s[Len(s) + 1 - i]]

DirOrders == {NameOrder, Reverse(NameOrder)}

Abs(parts) == [abs |-> TRUE,  parts |-> parts]
Rel(parts) == [abs |-> FALSE, parts |-> parts]

\* A small workspace: a file, a non-empty directory, and a symbolic link
\* that leaves the sandbox; beside it a directory whose name merely starts
\* like the root's.
InitFS ==
  (<<>>              :> Dir("rwx")) @@
  (<<"w">>           :> Dir("rwx")) @@
  (<<"w", "a">>      :> File(<<97>>)) @@
  (<<"w", "d">>      :> Dir("rwx")) @@
  (<<"w", "d", "f">> :> File(<<>>)) @@
  (<<"w", "l">>      :> Link(<<"we">>)) @@
  (<<"we">>          :> Dir("rwx")) @@
  (<<"we", "f">>     :> File(<<97, 97>>)) @@
  (<<"t">>           :> Dir("rwx")) @@
  (<<"t", "x">>      :> Dir("---")) @@
  (<<"t", "x", "a">> :> File(<<97>>))

RawPaths ==
  { Abs(<<"w">>), Abs(<<"w", "a">>), Abs(<<"w", "d">>), Abs(<<"w", "d", "f">>),
    Abs(<<"w", "b">>), Abs(<<"w", "n", "b">>),
    Abs(<<"w", "l">>), Abs(<<"w", "l", "f">>),
    Abs(<<"w", "up", "we", "f">>), Abs(<<"we">>),
    Abs(<<"w", "d", "up", "a">>), Rel(<<"dot", "a">>),
    Abs(<<"w", "nul">>), Abs(<<"t">>), Abs(<<"t", "x">>),
    Abs(<<"t", "x", "a">>) }

MaxMutations == 2

\* The depth of the chain of directories /t/d/d/.../d
ChainDepth == 13

ChainDir(i) == <<"t">> \o [j \in 1..i |-> "d"]

\* Root /w: a hidden directory, a link that leaves the sandbox and a link
\* back to /w itself.  Root /t: a plain tree with a deep chain of
\* directories, an unreadable directory x, a link k whose target lies in x,
\* and a dangling link g.
TreeFS ==
  (<<>>                    :> Dir("rwx")) @@
  (<<"we">>                :> Dir("rwx")) @@
  (<<"we", "f">>           :> File(<<97, 97>>)) @@
  (<<"w">>                 :> Dir("rwx")) @@
  (<<"w", "a">>            :> File(<<97>>)) @@
  (<<"w", "h">>            :> Dir("rwx")) @@
  (<<"w", "h", "a">>       :> File(<<97>>)) @@
  (<<"w", "l">>            :> Link(<<"we">>)) @@
  (<<"w", "c">>            :> Link(<<"w">>)) @@
  (<<"t">>                 :> Dir("rwx")) @@
  (<<"t", "a">>            :> File(<<97>>)) @@
  (<<"t", "h">>            :> File(<<>>)) @@
  (<<"t", "n">>            :> Dir("rwx")) @@
  (<<"t", "n", "b">>       :> File(<<97>>)) @@
  (<<"t", "n", "k">>       :> Link(<<"t", "n", "x", "a">>)) @@
  (<<"t", "n", "l">>       :> File(<<>>)) @@
  (<<"t", "n", "x">>       :> Dir("---")) @@
  (<<"t", "n", "x", "a">>  :> File(<<97>>)) @@
  (<<"t", "g">>            :> Dir("rwx")) @@
  (<<"t", "g", "a">>       :> File(<<>>)) @@
  (<<"t", "g", "g">>       :> Link(<<"t", "b">>)) @@
  (<<"t", "d", "h">>       :> Dir("rwx")) @@
  (<<"t", "d", "h", "a">>  :> File(<<97>>)) @@
  [p \in {ChainDir(i) : i \in 1..ChainDepth} |-> Dir("rwx")] @@
  [p \in {Append(ChainDir(i), "a") : i \in 1..ChainDepth} |-> File(<<97>>)]

TreePaths ==
  { Abs(p) : p \in DOMAIN TreeFS } \cup
  { Abs(<<"w", "c", "c">>), Abs(<<"w", "up", "we">>), Abs(<<"w", "l", "f">>),
    Abs(<<"w", "nul">>), Rel(<<"h">>), Rel(<<"up", "t", "d">>) }

NoRequest ==
  [op |-> "none", path |-> Abs(<<>>), encoding |-> "utf-8", max_size |-> 0,
   content |-> None, create_dirs |-> FALSE, recursive |-> FALSE,
   show_hidden |-> FALSE, order |-> NameOrder]

Request(op, raw) == [NoRequest EXCEPT !.op = op, !.path = raw]

NoResponse == Response(0, "", None, NoInfo, None, <<>>)

(***************************************************************************)
(* Actions: one per request handler                                        *)
(***************************************************************************)

Apply(rq, out) ==
  /\ req' = rq
  /\ fs' = out.fs
  /\ resp' = out.resp
  /\ touched' = out.touched

ReadFile(paths, encodings, sizes) ==
  \E raw \in paths, e \in encodings, m \in sizes :
    Apply([Request("read", raw) EXCEPT !.encoding = e, !.max_size = m],
          read_file(fs, raw, e, m))

WriteFile(paths, contents, encodings) ==
  \E raw \in paths, c \in contents, e \in encodings, cd \in BOOLEAN :
    Apply([Request("write", raw) EXCEPT !.content = c, !.encoding = e,
                                        !.create_dirs = cd],
          write_file(fs, raw, c, e, cd))

ListDirectory(paths) ==
  \E raw \in paths, r \in BOOLEAN, sh \in BOOLEAN, ord \in DirOrders :
    LET rq == [Request("list", raw) EXCEPT !.recursive = r, !.show_hidden = sh,
                                          !.order = ord]
    IN Apply(rq, list_directory(fs, rq))

DeletePath(paths) ==
  \E raw \in paths, r \in BOOLEAN, ord \in DirOrders :
    LET rq == [Request("delete", raw) EXCEPT !.recursive = r, !.order = ord]
    IN Apply(rq, delete_path(fs, rq))

CreateDirectory(paths) ==
  \E raw \in paths :
    Apply(Request("mkdir", raw), create_directory(fs, raw))

FileInfo(paths) ==
  \E raw \in paths :
    Apply(Request("info", raw), get_file_info_endpoint(fs, raw))

(***************************************************************************)
(* Requests are handled one at a time.  A handler runs when no request is  *)
(* pending and leaves its response; Reply sends it and discards the        *)
(* request-local state, the filesystem being all that persists.            *)
(***************************************************************************)

Idle == req.op = "none"

Reply ==
  /\ ~Idle
  /\ req' = NoRequest
  /\ resp' = NoResponse
  /\ touched' = {}
  /\ UNCHANGED <<fs, nmut>>

Start ==
  /\ req = NoRequest
  /\ resp = NoResponse
  /\ touched = {}
  /\ nmut = 0

(***************************************************************************)
(* Spec: every handler on the small workspace, with a bounded number of    *)
(* requests that change the filesystem.                                    *)
(***************************************************************************)

Init == fs = InitFS /\ Start

Mutating(A) == nmut < MaxMutations /\ A /\ nmut' = nmut + 1

DoRead   == Idle /\ ReadFile(RawPaths, Encodings, {0, 1}) /\ UNCHANGED nmut
DoList   == Idle /\ ListDirectory(RawPaths) /\ UNCHANGED nmut
DoInfo   == Idle /\ FileInfo(RawPaths) /\ UNCHANGED nmut
DoWrite  == Idle /\ Mutating(WriteFile(RawPaths, {<<"eacute">>}, Encodings))
DoDelete == Idle /\ Mutating(DeletePath(RawPaths))
DoMkdir  == Idle /\ Mutating(CreateDirectory(RawPaths))

Next == DoRead \/ DoList \/ DoInfo \/ DoWrite \/ DoDelete \/ DoMkdir \/ Reply

Spec == Init /\ [][Next]_vars

(***************************************************************************)
(* SpecTree: the read-only handlers on the larger tree.                    *)
(***************************************************************************)

InitTree == fs = TreeFS /\ Start

TreeList == Idle /\ ListDirectory(TreePaths) /\ UNCHANGED nmut
TreeInfo == Idle /\ FileInfo(TreePaths) /\ UNCHANGED nmut
TreeRead == Idle /\ ReadFile(TreePaths, {"utf-8"}, {1}) /\ UNCHANGED nmut

NextTree == TreeList \/ TreeInfo \/ TreeRead \/ Reply

SpecTree == InitTree /\ [][NextTree]_vars

(***************************************************************************)
(* SpecText: writing and reading one file with every short text.           *)
(***************************************************************************)

MaxLen == 2

Texts == UNION { [1..n -> Chars] : n \in 0..MaxLen }

TextPaths == { Abs(<<"w", "a">>), Rel(<<"dot", "a">>) }

ReadPaths ==
  TextPaths \cup { Abs(<<"w", "b">>), Abs(<<"w", "d">>), Abs(<<"w", "l", "f">>) }

InitText == fs \in {InitFS, Remove(InitFS, {<<"w", "a">>})} /\ Start

TextWrite == Idle /\ WriteFile(TextPaths, Texts, Encodings) /\ UNCHANGED nmut
TextRead  == Idle /\ ReadFile(ReadPaths, Encodings, 0..(2 * MaxLen))
                  /\ UNCHANGED nmut

NextText == TextWrite \/ TextRead \/ Reply

SpecText == InitText /\ [][NextText]_vars

(***************************************************************************)
(* Properties                                                              *)
(***************************************************************************)

\* r is p or a component-wise ancestor of p.
ComponentPrefix(r, p) == Len(r) <= Len(p) /\ SubSeq(p, 1, Len(r)) = r

\* p lies outside every allowed root.
Escapes(p) ==
  \A i \in 1..Len(ALLOWED_PATHS) : ~ComponentPrefix(ALLOWED_PATHS[i], p)

\* The raw path canonicalizes, and to a place outside every allowed root.
CanonicalOutside(F, raw) ==
  resolve(F, raw).err = "OK" /\ Escapes(resolve(F, raw).path)

\* The failure kind a caller can branch on.
OutcomeKind(r) ==
  CASE r.status = 200 -> "OK"
    [] r.status = 403 -> "Denied"
    [] r.status = 404 -> "NotFound"
    [] r.status = 413 -> "TooLarge"
    [] r.status = 400 /\ r.detail = "Invalid path" -> "Invalid"
    [] r.status = 400 /\ r.detail = "Cannot decode file" -> "DecodeError"
    [] r.status = 400
         /\ r.detail \in {"Path is not a file", "Path is not a directory"} -> "WrongType"
    [] OTHER -> "IOError"

ItemPaths(r) == { r.items[i].path : i \in 1..Len(r.items) }

\* C1: a request whose path canonicalizes outside every allowed root gets no
\* path from normalize_path: the handler answers with a failure, returns no
\* path, makes no system call and leaves the filesystem as it was.
C1_OutsideNeverResolved ==
  [][ (req'.op # "none" /\ CanonicalOutside(fs, req'.path))
        => /\ resp'.status # 200
           /\ resp'.path = None
           /\ touched' = {}
           /\ fs' = fs ]_vars

\* A request with '..' traversal, one through a symbolic link and one for
\* the directory that shares the root's string prefix have all been refused.
C1_Witness ==
  /\ req.op = "list"
  /\ req.path \in { Abs(<<"w", "up", "we", "f">>), Abs(<<"w", "l">>), Abs(<<"we">>) }
  /\ CanonicalOutside(fs, req.path)
  /\ resp.status # 200

\* C2: a path that canonicalizes outside every allowed root is answered
\* with the Denied outcome (403), and the Invalid outcome (400) is given
\* only when canonicalization itself failed.
C2_DeniedIsDistinct ==
  [][ req'.op # "none"
        => /\ CanonicalOutside(fs, req'.path) => OutcomeKind(resp') = "Denied"
           /\ OutcomeKind(resp') = "Invalid" => resolve(fs, req'.path).err # "OK" ]_vars

\* C3: every object a handler makes a system call on lies inside an allowed
\* root.
C3_OnlySandboxTouched == \A q \in touched : ~Escapes(q)

\* The subtree below p holds only readable directories and regular files.
PlainTree(F, p) ==
  /\ p \in DOMAIN F
  /\ \A q \in DOMAIN F :
       ComponentPrefix(p, q) =>
         \/ F[q].kind = "file"
         \/ F[q].kind = "dir" /\ F[q].mode = "rwx"

\* The entries below p whose depth is between 1 and depth.
EntriesWithin(F, p, depth) ==
  { q \in DOMAIN F :
      ComponentPrefix(p, q) /\ Len(q) - Len(p) \in 1..depth }

ListedPlainTree ==
  /\ req.op = "list"
  /\ req.show_hidden
  /\ resp.status = 200
  /\ PlainTree(fs, resp.path)

\* C4 as claimed: on a readable tree and with show_hidden, the listing is
\* exactly the entries of depth 1..D, with D = 1 when not recursive and
\* D = 10 when recursive.
C4_DepthCapTen ==
  ListedPlainTree =>
    /\ ItemPaths(resp) = EntriesWithin(fs, resp.path, IF req.recursive THEN 10 ELSE 1)
    /\ Cardinality(ItemPaths(resp)) = Len(resp.items)

\* C4 as amended: on a readable tree and with show_hidden, the listing is
\* exactly the entries of depth 1..D, with D = 1 when not recursive and
\* D = 11 when recursive (the listed directory and ten levels of descent).
C4_DepthCapEleven ==
  ListedPlainTree =>
    /\ ItemPaths(resp) =
         EntriesWithin(fs, resp.path,
                       IF req.recursive THEN MaxRecursionLevel + 1 ELSE 1)
    /\ Cardinality(ItemPaths(resp)) = Len(resp.items)

\* A recursive listing of a readable tree that returned an entry of depth
\* 11 and left out an existing entry of depth 12.
C4_Witness ==
  /\ ListedPlainTree
  /\ req.recursive
  /\ \E q \in ItemPaths(resp) : Len(q) - Len(resp.path) = 11
  /\ \E q \in DOMAIN fs :
       ComponentPrefix(resp.path, q) /\ Len(q) - Len(resp.path) = 12

\* The request names an existing directory inside the sandbox.
OnSandboxDirectory(F, raw) ==
  /\ normalize_path(F, raw).status = 200
  /\ normalize_path(F, raw).path \in DOMAIN F
  /\ F[normalize_path(F, raw).path].kind = "dir"

\* C5: a recursive listing of a directory inside the sandbox returns a
\* listing, never an error, whatever the directory graph below it.
C5_RecursiveListingSucceeds ==
  (req.op = "list" /\ req.recursive /\ OnSandboxDirectory(fs, req.path))
    => resp.status = 200

\* C6: deleting a non-empty directory inside the sandbox without recursive
\* fails with the DirectoryNotEmpty outcome and changes nothing; with
\* recursive it succeeds and the whole subtree is gone.
C6_DeleteNonEmptyDirectory ==
  [][ (req'.op = "delete" /\ OnSandboxDirectory(fs, req'.path)
         /\ HasChildren(fs, normalize_path(fs, req'.path).path))
        => IF req'.recursive
           THEN /\ resp'.status = 200
                /\ \A q \in DOMAIN fs' :
                     ~ComponentPrefix(normalize_path(fs, req'.path).path, q)
           ELSE /\ resp'.status # 200
                /\ OutcomeKind(resp') # "IOError"
                /\ fs' = fs ]_vars

\* C7: right after a successful write_file(p, c, e), read_file(p, e,
\* max_size) with max_size at least the encoded size of c returns c.
C7_WriteReadRoundTrip ==
  (req.op = "write" /\ resp.status = 200)
    => \A m \in Len(EncodeChars(req.content, req.encoding).bytes)..(2 * MaxLen) :
         LET rd == read_file(fs, req.path, req.encoding, m).resp IN
           rd.status = 200 /\ rd.content = req.content

\* C8: a listing of a readable directory below which nothing fails other
\* than with a permission error succeeds and contains every entry of the
\* directory that can be examined.
C8_PermissionErrorSkipsOneEntry ==
  LET p == normalize_path(fs, req.path).path
      visible == { nm \in Names : Append(p, nm) \in DOMAIN fs
                                  /\ (req.show_hidden \/ Spelling[nm][1] # ".") }
  IN
    ( /\ req.op = "list"
      /\ OnSandboxDirectory(fs, req.path)
      /\ CanRead(fs[p].mode)
      /\ \A q \in DOMAIN fs :
           ComponentPrefix(p, q) => Stat(fs, q).err \in {"OK", "EACCES"} )
    => /\ resp.status = 200
       /\ \A nm \in visible :
            Stat(fs, Append(p, nm)).err = "OK" => Append(p, nm) \in ItemPaths(resp)

C10_NoHiddenComponent ==
  (req.op = "list" /\ ~req.show_hidden /\ resp.status = 200)
    => \A q \in ItemPaths(resp) :
         \A j \in (Len(resp.path) + 1)..Len(q) : Spelling[q[j]][1] # "."

\* A recursive listing without show_hidden of a directory that holds a
\* hidden directory with a plain file in it; and a listing of a hidden
\* directory itself that returned its entries.
C10_Witness ==
  /\ req.op = "list"
  /\ ~req.show_hidden
  /\ req.recursive
  /\ resp.status = 200
  /\ resp.items # <<>>
  /\ \E nm \in Names :
       /\ Spelling[nm][1] = "."
       /\ Append(resp.path, nm) \in DOMAIN fs
       /\ fs[Append(resp.path, nm)].kind = "dir"
       /\ HasChildren(fs, Append(resp.path, nm))

====
